---- MODULE Spec2Model ----
(***************************************************************************)
(* CHATHUB (src/app.py): the real-time message broker.  The model holds    *)
(* the SQLite tables messages / reactions / pins, the in-memory presence   *)
(* maps user_to_sid / sid_to_user, the Socket.IO room membership of every  *)
(* connection, and one action per Socket.IO event handler.  Every handler  *)
(* runs to completion (one eventlet worker, blocking sqlite3 calls).       *)
(***************************************************************************)
EXTENDS Integers, Sequences, FiniteSets, TLC

VARIABLES
    messages,     \* table messages: id -> row
    seq,          \* sqlite_sequence of messages (AUTOINCREMENT high-water mark)
    reactions,    \* table reactions: a set of rows
    rseq,         \* sqlite_sequence of reactions
    pins,         \* table pins: id -> row
    pseq,         \* sqlite_sequence of pins
    user_to_sid,  \* presence map username -> sid
    sid_to_user,  \* presence map sid -> username
    member,       \* Socket.IO rooms entered by each connection
    conn,         \* life cycle of each connection: "new", "open", "closed"
    out,          \* the events emitted by the handler that ran last
    last,         \* the handler that ran last: name, connection, arguments, result
    sends,        \* history: the send_message events persisted, in the order handled
    dms,          \* history: ids of the messages persisted by send_dm events
    undelivered,  \* history: ids of the DMs persisted while their recipient had no sid
    task,         \* per connection: the message its send_message handler has persisted
                  \* and not yet broadcast, or None
    inbox         \* per connection: ids of the new_message_room events that
                  \* send_message handlers delivered to it, in the order of delivery

vars == <<messages, seq, reactions, rseq, pins, pseq,
          user_to_sid, sid_to_user, member, conn, out, last, sends, dms, undelivered, task, inbox>>

store == <<messages, seq, reactions, rseq, pins, pseq>>
presence == <<user_to_sid, sid_to_user>>

---------------------------------------------------------------------------
(* Bounds of the model.                                                    *)

\* rows ever inserted into messages on top of the initial backlog
MaxMsgs == 2
\* rows ever inserted into reactions
MaxReacts == 2
\* rows ever inserted into pins
MaxPins == 2

---------------------------------------------------------------------------
(* Values.                                                                 *)

\* Python None / JSON null / SQL NULL in a text position
NULL == "<null>"
\* a key that the event payload does not carry
ABSENT == "<absent>"
\* Python None / SQL NULL in an integer position (ids start at 1)
NoId == 0
\* Python None where a row (a dict) is expected
NoRow == [id |-> NoId]

Sids == {"s1", "s2", "s3"}
Usernames == {"A", "B"}
RoomNames == {"Lobby", "R2"}
Emojis == {"up"}
Bodies == {"hi"}
EditBodies == {"ed"}

\* the payload values of a text field: absent, null, or one of vals
Field(vals) == {ABSENT, NULL} \cup vals

\* data.get(key, default)
Get(v, default) == IF v = ABSENT THEN default ELSE v

\* Python truthiness of a text value: `not x`
Falsy(v) == v = NULL \/ v = ""

\* SQL `a = b`: never true when either side is NULL
SqlEqStr(a, b) == a # NULL /\ b # NULL /\ a = b
SqlEqId(a, b) == a # NoId /\ b # NoId /\ a = b

\* users.avatar of the out-of-scope users table: A has an avatar, B has none
get_user_avatar(u) == IF u = "A" THEN "avatarA" ELSE NULL

---------------------------------------------------------------------------
(* Dictionaries.                                                           *)

DictSet(d, k, v) == [x \in DOMAIN d \cup {k} |-> IF x = k THEN v ELSE d[x]]
DictPop(d, k) == [x \in DOMAIN d \ {k} |-> d[x]]
DictGet(d, k) == IF k \in DOMAIN d THEN d[k] ELSE NULL
EmptyDict == [x \in {} |-> NULL]

---------------------------------------------------------------------------
(* Queries of the message store.                                           *)

\* a table with an INTEGER PRIMARY KEY id: a function from the ids of its
\* rows to the rows
EmptyTable == [x \in {} |-> NoRow]
Rows(T) == {T[i] : i \in DOMAIN T}
Insert(T, row) == DictSet(T, row.id, row)

\* faulty variant: one row fewer than the limit
TakeShort(s, n) == IF Len(s) < n THEN s ELSE SubSeq(s, 1, n - 1)

\* LIMIT n
Take(s, n) == IF Len(s) <= n THEN s ELSE SubSeq(s, 1, n)

\* SELECT * FROM T WHERE Cond ORDER BY id ASC, the ids of T lying in 1..hi
SelectAsc(T, hi, Cond(_)) ==
    LET Has(i) == i \in DOMAIN T /\ Cond(T[i])
        ids == SelectSeq([i \in 1..hi |-> i], Has)
    IN [k \in 1..Len(ids) |-> T[ids[k]]]

\* ... ORDER BY id DESC
Reverse(s) == [i \in 1..Len(s) |-> s[Len(s) + 1 - i]]
SelectDesc(T, hi, Cond(_)) == Reverse(SelectAsc(T, hi, Cond))

\* the elements of a sequence
Range(s) == {s[i] : i \in 1..Len(s)}

load_room_messages_limit == 500
load_dm_history_limit == 500
get_pinned_limit == 50

\* faulty variant: ORDER BY id DESC
load_room_messages_desc(room, limit) ==
    Take(SelectDesc(messages, seq,
                    LAMBDA m : SqlEqStr(m.room, room) /\ m.receiver = NULL),
         limit)

\* faulty variant: the rows with the highest ids, in ascending order
load_room_messages_latest(room, limit) ==
    Reverse(Take(SelectDesc(messages, seq,
                            LAMBDA m : SqlEqStr(m.room, room) /\ m.receiver = NULL),
                 limit))

\* load_room_messages(room, limit)
load_room_messages(room, limit) ==
    Take(SelectAsc(messages, seq,
                   LAMBDA m : SqlEqStr(m.room, room) /\ m.receiver = NULL),
         limit)

\* faulty variant: only the messages from other to user
load_dm_history_received(user, other, limit) ==
    Take(SelectAsc(messages, seq,
                   LAMBDA m : SqlEqStr(m.sender, other) /\ SqlEqStr(m.receiver, user)),
         limit)

\* faulty variant: only the messages from user to other
load_dm_history_one_way(user, other, limit) ==
    Take(SelectAsc(messages, seq,
                   LAMBDA m : SqlEqStr(m.sender, user) /\ SqlEqStr(m.receiver, other)),
         limit)

\* load_dm_history(user, other, limit)
load_dm_history(user, other, limit) ==
    Take(SelectAsc(messages, seq,
                   LAMBDA m : \/ SqlEqStr(m.sender, user) /\ SqlEqStr(m.receiver, other)
                              \/ SqlEqStr(m.sender, other) /\ SqlEqStr(m.receiver, user)),
         limit)

\* reactions_summary(mid): emoji -> COUNT(*) ... GROUP BY emoji
reactions_summary_of(R, mid) ==
    LET rows == {r \in R : SqlEqId(r.message_id, mid)}
    IN [e \in {r.emoji : r \in rows} |-> Cardinality({r \in rows : r.emoji = e})]

reactions_summary(mid) == reactions_summary_of(reactions, mid)

\* faulty variant: the list ends at the first pin whose message is gone
get_pinned_until_dangling(M, P, hi, room) ==
    LET pinned == SelectDesc(P, hi, LAMBDA q : SqlEqStr(q.room, room))
        gone == {i \in 1..Len(pinned) : pinned[i].message_id \notin DOMAIN M}
        n == IF gone = {} THEN Len(pinned)
             ELSE (CHOOSE i \in gone : \A j \in gone : i <= j) - 1
    IN Take([i \in 1..n |-> M[pinned[i].message_id]], get_pinned_limit)

\* faulty variant: oldest pin first
get_pinned_oldest_first(M, P, hi, room) ==
    LET joined == SelectAsc(P, hi,
                      LAMBDA q : SqlEqStr(q.room, room) /\ q.message_id \in DOMAIN M)
    IN Take([i \in 1..Len(joined) |-> M[joined[i].message_id]], get_pinned_limit)

\* get_pinned(room) on messages M and pins P (pin ids up to hi):
\* messages JOIN pins ON m.id = p.message_id WHERE p.room = ?
\* ORDER BY p.id DESC LIMIT 50
get_pinned_of(M, P, hi, room) ==
    LET joined == SelectDesc(P, hi,
                      LAMBDA q : SqlEqStr(q.room, room) /\ q.message_id \in DOMAIN M)
    IN Take([i \in 1..Len(joined) |-> M[joined[i].message_id]], get_pinned_limit)

get_pinned(room) == get_pinned_of(messages, pins, pseq, room)

search_room_limit == 200

\* SQLite LIKE compares ASCII letters without regard to case
LowerChar(c) ==
    CASE c = "A" -> "a" [] c = "B" -> "b" [] c = "H" -> "h" [] c = "J" -> "j"
      [] c = "L" -> "l" [] c = "N" -> "n" [] c = "R" -> "r" [] c = "S" -> "s"
      [] OTHER -> c

\* text LIKE '%q%' for a q without the wildcards % and _
Like(text, q) ==
    \E i \in 1..(Len(text) - Len(q) + 1) :
        \A k \in 1..Len(q) :
            LowerChar(SubSeq(text, i + k - 1, i + k - 1)) = LowerChar(SubSeq(q, k, k))

\* search_room(room, q): f"%{q}%" renders a missing q as the text None
search_room(room, q) ==
    Take(SelectDesc(messages, seq,
                    LAMBDA m : /\ SqlEqStr(m.room, room)
                               /\ m.message # NULL
                               /\ Like(m.message, IF q = NULL THEN "None" ELSE q)),
         search_room_limit)

---------------------------------------------------------------------------
(* Fan-out.                                                                *)

Live == {s \in Sids : conn[s] = "open"}

\* faulty variant: named rooms are never looked up
InRoomOwn(r) == {s \in Live : r = s}

\* the connections an emit(..., room=r) reaches: every connection is in the
\* room named by its own sid; room None is every connection
InRoom(r) == IF r = NULL THEN Live ELSE {s \in Live : r = s \/ r \in member[s]}

Emit(ev, to, data) == [ev |-> ev, to |-> to, data |-> data]

\* user_list: one entry per key of user_to_sid, avatar looked up at emit time
user_list == {[username |-> u, avatar |-> get_user_avatar(u)] : u \in DOMAIN user_to_sid}

---------------------------------------------------------------------------
(* Mutations of the message store.                                         *)

Times == {1700000000}
Text(v) == IF v = NULL THEN "None" ELSE v

\* faulty variant: the id is one more than the highest stored id (a rowid
\* without AUTOINCREMENT)
persist_message_rowid(room, sender, receiver, text, image, reply_to, ts) ==
    LET top == IF DOMAIN messages = {} THEN 0
               ELSE CHOOSE i \in DOMAIN messages : \A j \in DOMAIN messages : j <= i
    IN [id |-> top + 1, room |-> room, sender |-> sender, receiver |-> receiver,
        message |-> text, image |-> image, reply_to |-> reply_to, timestamp |-> ts]

\* the row persist_message inserts: AUTOINCREMENT gives it the id seq + 1
persist_message(room, sender, receiver, text, image, reply_to, ts) ==
    [id |-> seq + 1, room |-> room, sender |-> sender, receiver |-> receiver,
     message |-> text, image |-> image, reply_to |-> reply_to, timestamp |-> ts]

\* `SELECT ... FROM messages WHERE id=?`: the row, or None
RowById(mid) == IF mid \in DOMAIN messages THEN messages[mid] ELSE NoRow

\* faulty variant: no test of the sender
edit_message_unchecked(mid, username, new_text) ==
    LET row == RowById(mid)
    IN IF row = NoRow
       THEN [ret |-> NoRow, messages |-> messages]
       ELSE LET updated == [row EXCEPT !.message = new_text]
            IN [ret |-> updated, messages |-> [messages EXCEPT ![mid] = updated]]

\* faulty variant: the update also renews the timestamp
edit_message_restamped(mid, username, new_text) ==
    LET row == RowById(mid)
    IN IF row = NoRow \/ row.sender # username
       THEN [ret |-> NoRow, messages |-> messages]
       ELSE LET updated == [row EXCEPT !.message = new_text, !.timestamp = row.timestamp + 1]
            IN [ret |-> updated, messages |-> [messages EXCEPT ![mid] = updated]]

\* edit_message(mid, username, new_text): the updated row, or None
edit_message(mid, username, new_text) ==
    LET row == RowById(mid)
    IN IF row = NoRow \/ row.sender # username
       THEN [ret |-> NoRow, messages |-> messages]
       ELSE LET updated == [row EXCEPT !.message = new_text]
            IN [ret |-> updated, messages |-> [messages EXCEPT ![mid] = updated]]

\* faulty variant: the reactions of the deleted message stay
delete_message_keep_reactions(mid, username) ==
    LET row == RowById(mid)
    IN IF row = NoRow \/ row.sender # username
       THEN [ret |-> FALSE, messages |-> messages, reactions |-> reactions]
       ELSE [ret |-> TRUE, messages |-> DictPop(messages, mid), reactions |-> reactions]

\* delete_message(mid, username): whether the row and its reactions were deleted
delete_message(mid, username) ==
    LET row == RowById(mid)
    IN IF row = NoRow \/ row.sender # username
       THEN [ret |-> FALSE, messages |-> messages, reactions |-> reactions]
       ELSE [ret |-> TRUE,
             messages |-> DictPop(messages, mid),
             reactions |-> {r \in reactions : ~SqlEqId(r.message_id, mid)}]

\* faulty variant: inserts without looking for an existing reaction
toggle_reaction_insert(R, n, mid, username, emoji) ==
    [ret |-> TRUE,
     reactions |-> R \cup {[id |-> n + 1, message_id |-> mid,
                            username |-> username, emoji |-> emoji]},
     rseq |-> n + 1]

\* toggle_reaction(mid, username, emoji) on the reaction table R with sequence n
toggle_reaction_on(R, n, mid, username, emoji) ==
    LET existing == {r \in R : /\ SqlEqId(r.message_id, mid)
                               /\ SqlEqStr(r.username, username)
                               /\ SqlEqStr(r.emoji, emoji)}
    IN IF existing # {}
       THEN LET first == CHOOSE r \in existing : \A o \in existing : r.id <= o.id
            IN [ret |-> FALSE, reactions |-> R \ {first}, rseq |-> n]
       ELSE [ret |-> TRUE,
             reactions |-> R \cup {[id |-> n + 1, message_id |-> mid,
                                    username |-> username, emoji |-> emoji]},
             rseq |-> n + 1]

toggle_reaction(mid, username, emoji) ==
    toggle_reaction_on(reactions, rseq, mid, username, emoji)

\* pin_message(mid, room): the pin row inserted, and the message row or None
pin_message(mid, room) ==
    [pins |-> Insert(pins, [id |-> pseq + 1, message_id |-> mid, room |-> room]),
     ret |-> RowById(mid)]

\* faulty variant: the room names are read before the handler's insert
rooms_list_before(M) ==
    LET named == {m.room : m \in {x \in Rows(messages) : x.room # NULL}}
    IN {r \in named : r # ""} \cup {"Lobby"}

\* SELECT DISTINCT room FROM messages WHERE room IS NOT NULL ... LIMIT 100,
\* empty names dropped, "Lobby" put in front when missing
distinct_room_limit == 100
rooms_list_of(M) ==
    LET named == {m.room : m \in {x \in Rows(M) : x.room # NULL}}
        got == IF Cardinality(named) <= distinct_room_limit THEN named
               ELSE CHOOSE T \in SUBSET named : Cardinality(T) = distinct_room_limit
    IN {r \in got : r # ""} \cup {"Lobby"}

WithAvatar(row, a) ==
    [k \in DOMAIN row \cup {"avatar"} |-> IF k = "avatar" THEN a ELSE row[k]]

---------------------------------------------------------------------------
(* Socket.IO event handlers.                                               *)

Handled(h, s, args, ret) == [h |-> h, sid |-> s, args |-> args, ret |-> ret]

\* @socketio.on("connect")
on_connect(s) ==
    /\ conn[s] = "new"
    /\ conn' = [conn EXCEPT ![s] = "open"]
    /\ out' = <<>>
    /\ last' = Handled("connect", s, <<>>, NULL)
    /\ UNCHANGED <<store, presence, member, sends, dms, undelivered, task, inbox>>

\* @socketio.on("disconnect"); the Socket.IO server then drops the
\* connection from every room
on_disconnect(s) ==
    /\ conn[s] = "open"
    /\ LET user == DictGet(sid_to_user, s)
       IN IF ~Falsy(user)
          THEN /\ user_to_sid' = DictPop(user_to_sid, user)
               /\ sid_to_user' = DictPop(sid_to_user, s)
          ELSE UNCHANGED presence
    /\ conn' = [conn EXCEPT ![s] = "closed"]
    /\ member' = [member EXCEPT ![s] = {}]
    /\ out' = <<Emit("user_list", Live \ {s},
                     {[username |-> u, avatar |-> get_user_avatar(u)] :
                        u \in DOMAIN user_to_sid'})>>
    /\ last' = Handled("disconnect", s, <<>>, NULL)
    /\ UNCHANGED <<store, sends, dms, undelivered, task, inbox>>

\* the rows of table users: registration is not part of the broker
users == {[username |-> "A", avatar |-> get_user_avatar("A")]}

\* @socketio.on("fetch_initial")
on_fetch_initial(s) ==
    /\ conn[s] = "open"
    /\ LET rooms == rooms_list_of(messages)
       IN /\ out' = <<Emit("initial", InRoom(s), [users |-> users, rooms |-> rooms])>>
          /\ last' = Handled("fetch_initial", s, <<>>, NULL)
    /\ UNCHANGED <<store, presence, member, conn, sends, dms, undelivered, task, inbox>>

\* @socketio.on("join_room")
on_join_room(s, p_username, p_room) ==
    /\ conn[s] = "open"
    /\ LET username == Get(p_username, NULL)
           room == Get(p_room, "Lobby")
           args == [username |-> p_username, room |-> p_room]
       IN IF Falsy(username)
          THEN /\ out' = <<>>
               /\ last' = Handled("join_room", s, args, NoRow)
               /\ UNCHANGED <<store, presence, member>>
          ELSE /\ user_to_sid' = DictSet(user_to_sid, username, s)
               /\ sid_to_user' = DictSet(sid_to_user, s, username)
               /\ member' = IF room = NULL THEN member
                            ELSE [member EXCEPT ![s] = @ \cup {room}]
               /\ \E ts \in Times :
                    LET msgs == load_room_messages(room, load_room_messages_limit)
                        sys_msg == persist_message(room, "System", NULL,
                                       username \o " joined " \o Text(room),
                                       NULL, NoId, ts)
                    IN /\ messages' = Insert(messages, sys_msg)
                       /\ seq' = seq + 1
                       /\ out' = <<Emit("load_room_messages",
                                        {c \in Live : s = c \/ s \in member'[c]}, msgs),
                                   Emit("new_message_room",
                                        IF room = NULL THEN Live
                                        ELSE {c \in Live : room = c \/ room \in member'[c]},
                                        sys_msg),
                                   Emit("user_list", Live,
                                        {[username |-> u, avatar |-> get_user_avatar(u)] :
                                           u \in DOMAIN user_to_sid'}),
                                   Emit("rooms_list", Live, rooms_list_of(messages'))>>
                       /\ last' = Handled("join_room", s, args, sys_msg)
               /\ UNCHANGED <<reactions, rseq, pins, pseq>>
    /\ UNCHANGED <<conn, sends, dms, undelivered, task, inbox>>

\* @socketio.on("load_room_messages")
on_load_room_messages(s, p_room) ==
    /\ conn[s] = "open"
    /\ LET room == Get(p_room, "Lobby")
           msgs == load_room_messages(room, load_room_messages_limit)
       IN /\ out' = <<Emit("load_room_messages", InRoom(s), msgs)>>
          /\ last' = Handled("load_room_messages", s, [room |-> p_room], msgs)
    /\ UNCHANGED <<store, presence, member, conn, sends, dms, undelivered, task, inbox>>

\* @socketio.on("send_message")
on_send_message(s, p_username, p_room, p_message, p_image, p_reply_to) ==
    /\ conn[s] = "open"
    /\ LET username == Get(p_username, NULL)
           room == Get(p_room, NULL)
           message == Get(p_message, "")
           image == Get(p_image, NULL)
           args == [username |-> p_username, room |-> p_room, message |-> p_message,
                    image |-> p_image, reply_to |-> p_reply_to]
       IN IF Falsy(username) \/ Falsy(room)
          THEN /\ out' = <<>>
               /\ last' = Handled("send_message", s, args, NoRow)
               /\ UNCHANGED <<store, sends>>
          ELSE /\ \E ts \in Times :
                    LET msg == persist_message(room, username, NULL, message,
                                               image, p_reply_to, ts)
                        sent == WithAvatar(msg, get_user_avatar(username))
                    IN /\ messages' = Insert(messages, msg)
                       /\ seq' = seq + 1
                       /\ out' = <<Emit("new_message_room", InRoom(room), sent),
                                   Emit("message", InRoom(room), sent)>>
                       /\ last' = Handled("send_message", s, args, msg)
                       /\ sends' = Append(sends, [sid |-> s, room |-> room, id |-> msg.id])
               /\ UNCHANGED <<reactions, rseq, pins, pseq>>
    /\ UNCHANGED <<presence, member, conn, dms, undelivered, task, inbox>>

\* @socketio.on("send_dm")
on_send_dm(s, p_username, p_to, p_message, p_image, p_reply_to) ==
    /\ conn[s] = "open"
    /\ LET sender == Get(p_username, NULL)
           to == Get(p_to, NULL)
           message == Get(p_message, "")
           image == Get(p_image, NULL)
           args == [username |-> p_username, to |-> p_to, message |-> p_message,
                    image |-> p_image, reply_to |-> p_reply_to]
       IN IF Falsy(sender) \/ Falsy(to)
          THEN /\ out' = <<>>
               /\ last' = Handled("send_dm", s, args, NoRow)
               /\ UNCHANGED <<store, dms, undelivered>>
          ELSE /\ \E ts \in Times :
                    LET msg == persist_message(NULL, sender, to, message,
                                               image, p_reply_to, ts)
                        sent == WithAvatar(msg, get_user_avatar(sender))
                        recipient_sid == DictGet(user_to_sid, to)
                    IN /\ messages' = Insert(messages, msg)
                       /\ seq' = seq + 1
                       /\ out' = (IF Falsy(recipient_sid) THEN <<>>
                                  ELSE <<Emit("new_message_dm", InRoom(recipient_sid), sent)>>)
                                 \o <<Emit("new_message_dm", InRoom(s), sent)>>
                       /\ last' = Handled("send_dm", s, args, msg)
                       /\ dms' = dms \cup {msg.id}
                       /\ undelivered' = IF Falsy(recipient_sid)
                                         THEN undelivered \cup {msg.id}
                                         ELSE undelivered
               /\ UNCHANGED <<reactions, rseq, pins, pseq>>
    /\ UNCHANGED <<presence, member, conn, sends, task, inbox>>

\* @socketio.on("load_dm")
on_load_dm(s, p_username, p_other) ==
    /\ conn[s] = "open"
    /\ LET hist == load_dm_history(Get(p_username, NULL), Get(p_other, NULL),
                                   load_dm_history_limit)
       IN /\ out' = <<Emit("load_dm_history", InRoom(s), hist)>>
          /\ last' = Handled("load_dm", s, [username |-> p_username, other |-> p_other], hist)
    /\ UNCHANGED <<store, presence, member, conn, sends, dms, undelivered, task, inbox>>

\* @socketio.on("edit_message")
on_edit_message(s, mid, p_message) ==
    /\ conn[s] = "open"
    /\ LET user == DictGet(sid_to_user, s)
           r == edit_message(mid, user, Get(p_message, NULL))
       IN /\ messages' = r.messages
          /\ out' = IF r.ret = NoRow THEN <<>> ELSE <<Emit("update_message", Live, r.ret)>>
          /\ last' = Handled("edit_message", s, [id |-> mid, message |-> p_message], r.ret)
    /\ UNCHANGED <<seq, reactions, rseq, pins, pseq, presence, member, conn, sends, dms, undelivered, task, inbox>>

\* @socketio.on("delete_message")
on_delete_message(s, mid) ==
    /\ conn[s] = "open"
    /\ LET user == DictGet(sid_to_user, s)
           r == delete_message(mid, user)
       IN /\ messages' = r.messages
          /\ reactions' = r.reactions
          /\ out' = IF r.ret THEN <<Emit("delete_message", Live, [id |-> mid])>> ELSE <<>>
          /\ last' = Handled("delete_message", s, [id |-> mid], r.ret)
    /\ UNCHANGED <<seq, rseq, pins, pseq, presence, member, conn, sends, dms, undelivered, task, inbox>>

\* @socketio.on("react")
on_react(s, mid, p_username, p_emoji) ==
    /\ conn[s] = "open"
    /\ LET r == toggle_reaction(mid, Get(p_username, NULL), Get(p_emoji, NULL))
       IN /\ reactions' = r.reactions
          /\ rseq' = r.rseq
          /\ out' = <<Emit("reactions_update", Live,
                           [message_id |-> mid,
                            reactions |-> reactions_summary_of(r.reactions, mid)])>>
          /\ last' = Handled("react", s,
                             [message_id |-> mid, username |-> p_username, emoji |-> p_emoji,
                              before |-> reactions_summary(mid)],
                             r.ret)
    /\ UNCHANGED <<messages, seq, pins, pseq, presence, member, conn, sends, dms, undelivered, task, inbox>>

\* @socketio.on("pin_message")
on_pin_message(s, mid, p_room) ==
    /\ conn[s] = "open"
    /\ LET room == Get(p_room, "Lobby")
           r == pin_message(mid, room)
       IN /\ pins' = r.pins
          /\ pseq' = pseq + 1
          /\ out' = IF r.ret = NoRow THEN <<>>
                    ELSE <<Emit("pinned_message", Live, r.ret),
                           Emit("pinned_list", Live, get_pinned_of(messages, r.pins, pseq + 1, room))>>
          /\ last' = Handled("pin_message", s, [id |-> mid, room |-> p_room], r.ret)
    /\ UNCHANGED <<messages, seq, reactions, rseq, presence, member, conn, sends, dms, undelivered, task, inbox>>

\* @socketio.on("get_pinned")
on_get_pinned(s, p_room) ==
    /\ conn[s] = "open"
    /\ LET pinned == get_pinned(Get(p_room, "Lobby"))
       IN /\ out' = <<Emit("pinned_list", InRoom(s), pinned)>>
          /\ last' = Handled("get_pinned", s, [room |-> p_room], pinned)
    /\ UNCHANGED <<store, presence, member, conn, sends, dms, undelivered, task, inbox>>

\* @socketio.on("search")
on_search(s, p_room, p_query) ==
    /\ conn[s] = "open"
    /\ LET results == search_room(Get(p_room, NULL), Get(p_query, NULL))
       IN /\ out' = <<Emit("search_results", InRoom(s), [results |-> results])>>
          /\ last' = Handled("search", s, [room |-> p_room, query |-> p_query], results)
    /\ UNCHANGED <<store, presence, member, conn, sends, dms, undelivered, task, inbox>>

\* @socketio.on("request_reactions")
on_request_reactions(s, mid) ==
    /\ conn[s] = "open"
    /\ LET summary == reactions_summary(mid)
       IN /\ out' = <<Emit("reactions_update", InRoom(s),
                           [message_id |-> mid, reactions |-> summary])>>
          /\ last' = Handled("request_reactions", s, [message_id |-> mid], summary)
    /\ UNCHANGED <<store, presence, member, conn, sends, dms, undelivered, task, inbox>>

\* @socketio.on("typing"): data.get("room") of a missing key is None, and an
\* emit to room None reaches every connection
on_typing(s, p_username, p_room) ==
    /\ conn[s] = "open"
    /\ out' = <<Emit("typing", InRoom(Get(p_room, NULL)),
                     [username |-> Get(p_username, NULL)])>>
    /\ last' = Handled("typing", s, [username |-> p_username, room |-> p_room], NULL)
    /\ UNCHANGED <<store, presence, member, conn, sends, dms, undelivered, task, inbox>>

\* @socketio.on("stop_typing")
on_stop_typing(s, p_username, p_room) ==
    /\ conn[s] = "open"
    /\ out' = <<Emit("stop_typing", InRoom(Get(p_room, NULL)),
                     [username |-> Get(p_username, NULL)])>>
    /\ last' = Handled("stop_typing", s, [username |-> p_username, room |-> p_room], NULL)
    /\ UNCHANGED <<store, presence, member, conn, sends, dms, undelivered, task, inbox>>

---------------------------------------------------------------------------
(* Specifications.                                                         *)

Init ==
    /\ messages = EmptyTable
    /\ seq = 0
    /\ reactions = {}
    /\ rseq = 0
    /\ pins = EmptyTable
    /\ pseq = 0
    /\ user_to_sid = EmptyDict
    /\ sid_to_user = EmptyDict
    /\ member = [s \in Sids |-> {}]
    /\ conn = [s \in Sids |-> "new"]
    /\ out = <<>>
    /\ last = Handled("init", NULL, <<>>, NULL)
    /\ sends = <<>>
    /\ dms = {}
    /\ undelivered = {}
    /\ task = [s \in Sids |-> NoRow]
    /\ inbox = [s \in Sids |-> <<>>]

\* the message ids an event may name when the run starts with n messages
Ids(n) == 1..(n + MaxMsgs)

\* the rows a run may insert on top of the n messages it starts with
Within(n) == seq' <= n + MaxMsgs /\ rseq' <= MaxReacts /\ pseq' <= MaxPins

\* connections, identification and room membership
NextPresence ==
    \E s \in Sids :
        \/ on_connect(s)
        \/ on_disconnect(s)
        \/ \E u \in {NULL} \cup Usernames, r \in {ABSENT, NULL, "R2"} :
              on_join_room(s, u, r) /\ Within(0)

SpecPresence == Init /\ [][NextPresence]_vars

\* the message store under edits, deletes and reactions by identified and
\* unidentified connections
NextStore ==
    \E s \in {"s1", "s2"} :
        \/ on_connect(s)
        \/ \E u \in Usernames : on_join_room(s, u, ABSENT) /\ Within(0)
        \/ \E u \in Usernames : on_send_message(s, u, "Lobby", "hi", NULL, NoId) /\ Within(0)
        \/ s = "s1" /\ on_react(s, 1, "A", "up") /\ Within(0)
        \/ \E mid \in Ids(0), m \in EditBodies : on_edit_message(s, mid, m)
        \/ \E mid \in Ids(0) : on_delete_message(s, mid)

SpecStore == Init /\ [][NextStore]_vars

\* reactions
NextReact ==
    \E s \in {"s1", "s2"} :
        \/ on_connect(s)
        \/ on_send_message(s, "A", "Lobby", "hi", NULL, NoId) /\ Within(0)
        \/ \E mid \in Ids(0), u \in Usernames, e \in Emojis : on_react(s, mid, u, e) /\ Within(0)

SpecReact == Init /\ [][NextReact]_vars

\* a server that has run for a while: one conversation already holds as many
\* messages as a history query returns
Backlog == load_room_messages_limit

BacklogRow(i, kind) ==
    [id |-> i, room |-> IF kind = "room" THEN "Lobby" ELSE NULL, sender |-> "A",
     receiver |-> IF kind = "room" THEN NULL ELSE "B", message |-> "hi",
     image |-> NULL, reply_to |-> NoId, timestamp |-> 1700000000]

InitBacklog ==
    /\ \E kind \in {"room", "dm"} : messages = [i \in 1..Backlog |-> BacklogRow(i, kind)]
    /\ seq = Backlog
    /\ reactions = {}
    /\ rseq = 0
    /\ pins = EmptyTable
    /\ pseq = 0
    /\ user_to_sid = EmptyDict
    /\ sid_to_user = EmptyDict
    /\ member = [s \in Sids |-> {}]
    /\ conn = [s \in Sids |-> "new"]
    /\ out = <<>>
    /\ last = Handled("init", NULL, <<>>, NULL)
    /\ sends = <<>>
    /\ dms = {}
    /\ undelivered = {}
    /\ task = [s \in Sids |-> NoRow]
    /\ inbox = [s \in Sids |-> <<>>]

\* the ids of the messages a run adds to the n it starts with
NewIds(n) == (n + 1)..(n + MaxMsgs)

NextBacklog ==
    \/ \E s \in {"s1", "s2"} :
          \/ on_connect(s)
          \/ on_send_message(s, "A", "Lobby", "hi", NULL, NoId) /\ Within(Backlog)
    \/ on_join_room("s1", "A", ABSENT) /\ Within(Backlog)
    \/ on_join_room("s2", "B", ABSENT) /\ Within(Backlog)
    \/ on_send_dm("s1", "A", "B", "hi", NULL, NoId) /\ Within(Backlog)
    \/ \E mid \in NewIds(Backlog), m \in EditBodies : on_edit_message("s1", mid, m)
    \/ on_load_dm("s2", "B", "A")

SpecBacklog == InitBacklog /\ [][NextBacklog]_vars

\* events that name no stored message or lack a field
NextMissing ==
    \/ \E s \in {"s1", "s2"} : on_connect(s)
    \/ \E u \in {ABSENT, NULL, "A"} : on_join_room("s1", u, "R2") /\ Within(0)
    \/ \E a \in {<<ABSENT, "Lobby">>, <<"A", ABSENT>>, <<"A", NULL>>, <<"A", "Lobby">>} :
          on_send_message("s1", a[1], a[2], "hi", NULL, NoId) /\ Within(0)
    \/ \E a \in {<<NULL, "B">>, <<"A", ABSENT>>, <<"A", "B">>} :
          on_send_dm("s1", a[1], a[2], "hi", NULL, NoId) /\ Within(0)
    \/ \E a \in {<<NoId, "A", "up">>, <<1, ABSENT, "up">>, <<1, "A", NULL>>, <<1, "A", "up">>} :
          on_react("s1", a[1], a[2], a[3]) /\ Within(0)
    \/ \E mid \in {NoId, 1} : on_pin_message("s1", mid, ABSENT) /\ Within(0)
    \/ \E mid \in {NoId, 1}, m \in EditBodies : on_edit_message("s1", mid, m)
    \/ \E mid \in {NoId, 1} : on_delete_message("s1", mid)

SpecMissing == Init /\ [][NextMissing]_vars

\* pins of room messages and DMs, deletes, and the pinned list
NextPins ==
    \/ \E s \in {"s1", "s2"} : on_connect(s)
    \/ on_join_room("s1", "A", ABSENT) /\ Within(0)
    \/ on_send_message("s1", "A", "Lobby", "hi", NULL, NoId) /\ Within(0)
    \/ on_send_dm("s1", "A", "B", "hi", NULL, NoId) /\ Within(0)
    \/ \E mid \in Ids(0), r \in {ABSENT, "R2"} : on_pin_message("s1", mid, r) /\ Within(0)
    \/ \E mid \in Ids(0) : on_delete_message("s1", mid)
    \/ on_get_pinned("s2", ABSENT)

SpecPins == Init /\ [][NextPins]_vars

\* history requests against a store with a backlog, under sends and deletes
NextHistory ==
    \/ \E s \in {"s1", "s2"} : on_connect(s)
    \/ on_join_room("s1", "A", ABSENT) /\ Within(Backlog)
    \/ on_send_message("s1", "A", "Lobby", "hi", NULL, NoId) /\ Within(Backlog)
    \/ \E mid \in {1} \cup NewIds(Backlog) : on_delete_message("s1", mid)
    \/ on_load_room_messages("s2", "Lobby")

SpecHistory == InitBacklog /\ [][NextHistory]_vars

\* faulty variant: handlers of different connections run on threads that may
\* be preempted at any point
CanRunPreemptive(s) == task[s] = NoRow

\* The handlers are greenlets of one eventlet worker (async_mode="eventlet",
\* gunicorn -w 1 -k eventlet): a handler runs until it makes a blocking green
\* call, and on_send_message makes none between persist_message and its two
\* emits (sqlite3 calls block the whole worker).  So a handler starts only
\* when no other handler is between its persist and its broadcast.
CanRun(s) == \A c \in Sids : task[c] = NoRow

\* on_send_message up to and including persist_message
send_message_persist(s, p_username, p_room, p_message) ==
    /\ conn[s] = "open"
    /\ CanRun(s)
    /\ LET username == Get(p_username, NULL)
           room == Get(p_room, NULL)
           args == [username |-> p_username, room |-> p_room, message |-> p_message,
                    image |-> ABSENT, reply_to |-> NoId]
       IN /\ ~(Falsy(username) \/ Falsy(room))
          /\ \E ts \in Times :
               LET msg == persist_message(room, username, NULL, Get(p_message, ""),
                                          NULL, NoId, ts)
               IN /\ messages' = Insert(messages, msg)
                  /\ seq' = seq + 1
                  /\ task' = [task EXCEPT ![s] = WithAvatar(msg, get_user_avatar(username))]
                  /\ sends' = Append(sends, [sid |-> s, room |-> room, id |-> msg.id])
                  /\ last' = Handled("send_message_persist", s, args, msg)
    /\ out' = <<>>
    /\ UNCHANGED <<reactions, rseq, pins, pseq, presence, member, conn, dms, undelivered, inbox>>

\* the rest of on_send_message: the two emits to the room
send_message_broadcast(s) ==
    /\ task[s] # NoRow
    /\ LET sent == task[s]
       IN /\ out' = <<Emit("new_message_room", InRoom(sent.room), sent),
                      Emit("message", InRoom(sent.room), sent)>>
          /\ inbox' = [c \in Sids |-> IF c \in InRoom(sent.room)
                                      THEN Append(inbox[c], sent.id) ELSE inbox[c]]
          /\ last' = Handled("send_message_broadcast", s, <<>>, sent)
    /\ task' = [task EXCEPT ![s] = NoRow]
    /\ UNCHANGED <<store, presence, member, conn, sends, dms, undelivered>>

\* two connections have joined the Lobby as A and B, a third is connected
JoinRow(i, u) ==
    [id |-> i, room |-> "Lobby", sender |-> "System", receiver |-> NULL,
     message |-> u \o " joined Lobby", image |-> NULL, reply_to |-> NoId,
     timestamp |-> 1700000000]

JoinedRows == 2

InitJoined ==
    /\ messages = Insert(Insert(EmptyTable, JoinRow(1, "A")), JoinRow(2, "B"))
    /\ seq = JoinedRows
    /\ reactions = {}
    /\ rseq = 0
    /\ pins = EmptyTable
    /\ pseq = 0
    /\ user_to_sid = DictSet(DictSet(EmptyDict, "A", "s1"), "B", "s2")
    /\ sid_to_user = DictSet(DictSet(EmptyDict, "s1", "A"), "s2", "B")
    /\ member = [s \in Sids |-> IF s \in {"s1", "s2"} THEN {"Lobby"} ELSE {}]
    /\ conn = [s \in Sids |-> "open"]
    /\ out = <<>>
    /\ last = Handled("init", NULL, <<>>, NULL)
    /\ sends = <<>>
    /\ dms = {}
    /\ undelivered = {}
    /\ task = [s \in Sids |-> NoRow]
    /\ inbox = [s \in Sids |-> <<>>]

\* send_message events of several connections in flight at once
NextConcurrent ==
    \E s \in Sids :
        \/ \E u \in Usernames, r \in RoomNames :
              send_message_persist(s, u, r, "hi") /\ Within(JoinedRows)
        \/ send_message_broadcast(s)
        \/ CanRun(s) /\ on_disconnect(s)

SpecConcurrent == InitJoined /\ [][NextConcurrent]_vars

\* DMs between connections that join rooms of any name, the names that are
\* connection ids included (a room name is any text the client sends)
NextDm ==
    \E s \in Sids :
        \/ on_connect(s)
        \/ on_disconnect(s)
        \/ \E u \in Usernames, r \in {ABSENT} \cup Sids : on_join_room(s, u, r) /\ Within(0)
        \/ on_send_dm(s, "A", "B", "hi", NULL, NoId) /\ Within(0)

SpecDm == Init /\ [][NextDm]_vars

\* deletes of room messages and direct messages that carry reactions
NextDelete ==
    \/ \E s \in {"s1", "s2"} : on_connect(s)
    \/ on_join_room("s1", "A", ABSENT) /\ Within(0)
    \/ on_send_message("s1", "A", "Lobby", "hi", NULL, NoId) /\ Within(0)
    \/ on_send_dm("s1", "A", "B", "hi", NULL, NoId) /\ Within(0)
    \/ \E mid \in Ids(0) : on_react("s1", mid, "A", "up") /\ Within(0)
    \/ \E mid \in Ids(0) : on_delete_message("s1", mid)

SpecDelete == Init /\ [][NextDelete]_vars

\* edits of room messages and direct messages while reactions and pins exist
NextEdit ==
    \/ \E s \in {"s1", "s2"} : on_connect(s)
    \/ on_join_room("s1", "A", ABSENT) /\ Within(0)
    \/ on_send_message("s1", "A", "Lobby", "hi", NULL, NoId) /\ Within(0)
    \/ on_send_dm("s1", "A", "B", "hi", NULL, NoId) /\ Within(0)
    \/ on_react("s1", 1, "A", "up") /\ Within(0)
    \/ on_pin_message("s1", 1, ABSENT) /\ Within(0)
    \/ \E mid \in Ids(0), m \in EditBodies : on_edit_message("s1", mid, m)

SpecEdit == Init /\ [][NextEdit]_vars

\* typing notices and queries among joins, sends, reactions and pins
NextQuiet ==
    \/ \E s \in {"s1", "s2"} : on_connect(s)
    \/ \E r \in {ABSENT, "s2"} : on_join_room("s1", "A", r) /\ Within(0)
    \/ on_send_message("s1", "A", "Lobby", "hi", NULL, NoId) /\ Within(0)
    \/ on_react("s1", 1, "A", "up") /\ Within(0)
    \/ on_pin_message("s1", 1, ABSENT) /\ Within(0)
    \/ \E s \in {"s1", "s2"} :
          \/ \E r \in {ABSENT, "Lobby", "R2"} : on_typing(s, "A", r)
          \/ \E r \in {ABSENT, "Lobby", "R2"} : on_stop_typing(s, "A", r)
          \/ on_load_room_messages(s, ABSENT)
          \/ on_load_dm(s, "A", "B")
          \/ on_search(s, "Lobby", "hi")
          \/ on_get_pinned(s, ABSENT)
          \/ on_request_reactions(s, 1)

SpecQuiet == Init /\ [][NextQuiet]_vars

\* room lists: joins under any name, the join messages deleted by their
\* sender, and the initial list
NextRooms ==
    \E s \in {"s1", "s2"} :
        \/ on_connect(s)
        \/ on_disconnect(s)
        \/ \E u \in {"A", "System"}, r \in {ABSENT, "R2", ""} :
              on_join_room(s, u, r) /\ Within(0)
        \/ \E mid \in Ids(0) : on_delete_message(s, mid)
        \/ on_fetch_initial(s)

SpecRooms == Init /\ [][NextRooms]_vars

\* a room that already holds as many pins as a pinned list returns
PinBacklog == get_pinned_limit
PinnedRows == 2

InitPinned ==
    /\ messages = [i \in 1..PinnedRows |-> BacklogRow(i, "room")]
    /\ seq = PinnedRows
    /\ reactions = {}
    /\ rseq = 0
    /\ \E n \in {0, PinBacklog} :
          /\ pins = [i \in 1..n |-> [id |-> i, message_id |-> 1 + (i % PinnedRows),
                                      room |-> "Lobby"]]
          /\ pseq = n
    /\ user_to_sid = EmptyDict
    /\ sid_to_user = EmptyDict
    /\ member = [s \in Sids |-> {}]
    /\ conn = [s \in Sids |-> "new"]
    /\ out = <<>>
    /\ last = Handled("init", NULL, <<>>, NULL)
    /\ sends = <<>>
    /\ dms = {}
    /\ undelivered = {}
    /\ task = [s \in Sids |-> NoRow]
    /\ inbox = [s \in Sids |-> <<>>]

\* the rows a run may insert on top of the pins it starts with
WithinPinned == pseq' <= (IF pseq < PinBacklog THEN 0 ELSE PinBacklog) + MaxPins

NextPinned ==
    \/ \E s \in {"s1", "s2"} : on_connect(s)
    \/ \E mid \in 1..PinnedRows, r \in {ABSENT, "R2"} :
          on_pin_message("s1", mid, r) /\ WithinPinned
    \/ \E r \in {ABSENT, "R2"} : on_get_pinned("s2", r)

SpecPinned == InitPinned /\ [][NextPinned]_vars

\* react events for the same triple from two connections.  on_react makes no
\* blocking green call (toggle_reaction and reactions_summary are sqlite3
\* calls, socketio.emit queues), so each event is handled in one step and the
\* events of the two connections interleave in any order.
NextReacts ==
    \E s \in {"s1", "s2"} :
        \/ on_connect(s)
        \/ on_send_message(s, "A", "Lobby", "hi", NULL, NoId) /\ Within(0)
        \/ \E e \in {"up", NULL} : on_react(s, 1, "A", e) /\ Within(0)

SpecReacts == Init /\ [][NextReacts]_vars

\* appends of every kind among deletes, with replies, pins and reactions
\* that reference the first message sent, after two joins
FirstSent == JoinedRows + 1

NextIds ==
    \/ on_join_room("s3", "A", "R2") /\ Within(JoinedRows)
    \/ \E rt \in {NoId, FirstSent} :
          on_send_message("s1", "A", "Lobby", "hi", NULL, rt) /\ Within(JoinedRows)
    \/ on_send_dm("s1", "A", "B", "hi", NULL, NoId) /\ Within(JoinedRows)
    \/ on_react("s1", FirstSent, "A", "up") /\ Within(JoinedRows)
    \/ on_pin_message("s1", FirstSent, ABSENT) /\ Within(JoinedRows)
    \/ \E mid \in NewIds(JoinedRows) : on_delete_message("s1", mid)

SpecIds == InitJoined /\ [][NextIds]_vars

---------------------------------------------------------------------------
(* Vocabulary of the properties.                                           *)

\* lookup_connection(username)
lookup_connection(u) == DictGet(user_to_sid, u)

\* list_room(room) and list_dm(a, b) with the limit the handlers pass
list_room(room) == load_room_messages(room, load_room_messages_limit)
list_dm(a, b) == load_dm_history(a, b, load_dm_history_limit)

\* the ids of the rows of a sequence of rows
IdsOf(L) == {L[k].id : k \in 1..Len(L)}

\* the ids of the stored messages of a room, and of a DM conversation
RoomIds(room) ==
    {i \in DOMAIN messages : messages[i].room = room /\ messages[i].receiver = NULL}
DmIds(a, b) ==
    {i \in DOMAIN messages :
        \/ messages[i].sender = a /\ messages[i].receiver = b
        \/ messages[i].sender = b /\ messages[i].receiver = a}

\* id is one of the n lowest ids of S
AmongFirst(S, id, n) == Cardinality({i \in S : i <= id}) <= n

\* the events of a given name emitted by the last handler
Emitted(ev) == {out[k] : k \in {i \in 1..Len(out) : out[i].ev = ev}}

\* the usernames carried by the user_list events of the last handler
ListedUsers == {e.username : e \in UNION {o.data : o \in Emitted("user_list")}}

Joined == last.h = "join_room" /\ last.ret # NoRow
Disconnected == last.h = "disconnect"

---------------------------------------------------------------------------
(* Properties.                                                             *)

\* C1 -- Presence consistency: a join as U from connection C makes
\* lookup_connection(U) = C (so the later of two joins as U wins), and when a
\* connection that identified as U but no longer holds U's mapping (a stale
\* connection) disconnects, lookup_connection(U) is unchanged and U is still
\* in the presence list that the disconnect broadcasts.
C1_PresenceConsistency ==
    [][ /\ Joined' => DictGet(user_to_sid', Get(last'.args.username, NULL)) = last'.sid
        /\ \A u \in Usernames :
             ( /\ Disconnected'
               /\ DictGet(sid_to_user, last'.sid) = u
               /\ lookup_connection(u) \notin {NULL, last'.sid} )
             => /\ DictGet(user_to_sid', u) = lookup_connection(u)
                /\ u \in ListedUsers'
      ]_vars

\* C2 -- Authorization is a silent no-op: an edit_message or delete_message
\* event for a stored message M from a connection whose identified username
\* is not M.sender (a connection that never identified included) leaves M and
\* the reactions on M as they were, returns None (edit) or False (delete),
\* and emits no update_message and no delete_message event.
C2_UnauthorizedIsNoOp ==
    [][ \A mid \in DOMAIN messages :
          ( /\ last'.h \in {"edit_message", "delete_message"}
            /\ last'.args.id = mid
            /\ DictGet(sid_to_user, last'.sid) # messages[mid].sender )
          => /\ mid \in DOMAIN messages'
             /\ messages'[mid] = messages[mid]
             /\ {r \in reactions' : r.message_id = mid} = {r \in reactions : r.message_id = mid}
             /\ IF last'.h = "edit_message" THEN last'.ret = NoRow ELSE last'.ret = FALSE
             /\ \A k \in 1..Len(out') : out'[k].ev \notin {"update_message", "delete_message"}
      ]_vars

\* C2, the case happens: a connection identified as another user has just
\* sent edit_message for a stored message that carries a reaction
C2_UnauthorizedEditHappens ==
    /\ last.h = "edit_message"
    /\ last.ret = NoRow
    /\ last.args.id \in DOMAIN messages
    /\ DictGet(sid_to_user, last.sid) \in Usernames \ {messages[last.args.id].sender}
    /\ \E r \in reactions : r.message_id = last.args.id

\* C3 (as amended) -- DM isolation: list_dm(A, B) and list_dm(B, A) are the
\* same sequence; a message sent by send_dm from A to B is in it provided it
\* is one of the 500 lowest ids of the conversation between A and B; and it is
\* in list_room of no room, after any sequence of sends, edits and joins.
C3_DMIsolationWithinLimit ==
    \A id \in dms :
        /\ id \in DOMAIN messages
        /\ LET m == messages[id]
           IN /\ list_dm(m.sender, m.receiver) = list_dm(m.receiver, m.sender)
              /\ AmongFirst(DmIds(m.sender, m.receiver), id, load_dm_history_limit)
                   => \E k \in 1..Len(list_dm(m.sender, m.receiver)) :
                         list_dm(m.sender, m.receiver)[k] = m
              /\ \A room \in RoomNames : id \notin IdsOf(list_room(room))

\* C3 as stated: every message sent by send_dm from A to B is returned by
\* list_dm(A, B) and by list_dm(B, A), and by list_room of no room
C3_DMIsolation ==
    \A id \in dms :
        /\ id \in DOMAIN messages
        /\ LET m == messages[id]
           IN /\ list_dm(m.sender, m.receiver) = list_dm(m.receiver, m.sender)
              /\ id \in IdsOf(list_dm(m.sender, m.receiver))
              /\ \A room \in RoomNames : id \notin IdsOf(list_room(room))

\* C3, the case happens: a DM sent and then edited is listed for both users
\* while a room holds messages
C3_EditedDMListed ==
    \E id \in dms :
        /\ messages[id].message \in EditBodies
        /\ id \in IdsOf(list_dm("B", "A"))
        /\ list_room("Lobby") # <<>>

\* position of an id in a sequence of rows that holds it
Pos(L, id) == CHOOSE k \in 1..Len(L) : L[k].id = id

\* C4 (as amended) -- Ordering: the send_message events of one connection
\* to one room are stored under strictly increasing ids in the order they were
\* sent, and list_room returns them in that order as far as they are among
\* the 500 lowest ids of the room.
C4_SendOrderWithinLimit ==
    \A i, j \in 1..Len(sends) :
        (i < j /\ sends[i].sid = sends[j].sid /\ sends[i].room = sends[j].room)
        => LET a == sends[i].id
               b == sends[j].id
               R == sends[i].room
               L == list_room(R)
           IN /\ a < b
              /\ {a, b} \subseteq RoomIds(R)
              /\ AmongFirst(RoomIds(R), b, load_room_messages_limit)
                   => /\ {a, b} \subseteq IdsOf(L)
                      /\ Pos(L, a) < Pos(L, b)

\* C4 as stated: list_room returns all of them, in the order sent
C4_SendOrder ==
    \A i, j \in 1..Len(sends) :
        (i < j /\ sends[i].sid = sends[j].sid /\ sends[i].room = sends[j].room)
        => LET a == sends[i].id
               b == sends[j].id
               R == sends[i].room
               L == list_room(R)
           IN /\ a < b
              /\ {a, b} \subseteq RoomIds(R)
              /\ {a, b} \subseteq IdsOf(L)
              /\ Pos(L, a) < Pos(L, b)

\* C4, the case happens: one connection has sent two messages to one room
\* and list_room returns both
C4_TwoSendsListed ==
    \E i, j \in 1..Len(sends) :
        /\ i < j /\ sends[i].sid = sends[j].sid /\ sends[i].room = sends[j].room
        /\ {sends[i].id, sends[j].id} \subseteq IdsOf(list_room(sends[i].room))

\* C5 -- Reaction toggle: a react event returns true exactly when no
\* reaction of that message id, username and emoji existed; when the event
\* handled just before it was a react with the same three values, the two
\* results are opposite (true then false when none existed before the pair,
\* false then true when one did) and reactions_summary of the id after the
\* pair equals reactions_summary before it.
C5_TogglePair ==
    [][ last'.h = "react" =>
          LET a == last'.args
              existed == \E r \in reactions : /\ r.message_id = a.message_id
                                              /\ r.username = a.username
                                              /\ r.emoji = a.emoji
          IN /\ last'.ret = ~existed
             /\ ( /\ last.h = "react"
                  /\ last.args.message_id = a.message_id
                  /\ last.args.username = a.username
                  /\ last.args.emoji = a.emoji )
                => /\ last'.ret = ~last.ret
                   /\ reactions_summary_of(reactions', a.message_id) = last.args.before
      ]_vars

\* C5, the case happens: one connection has connected and sent react twice
\* for values that had no reaction; the second call removed what the first
\* call inserted
C5_PairHappens ==
    /\ last.h = "react"
    /\ last.ret = FALSE
    /\ rseq = 1
    /\ reactions = {}
    /\ Cardinality(Live) = 1
    /\ seq = 0

\* C6 -- every stored message has exactly one of room and receiver set.
C6_ExactlyOneOfRoomReceiver ==
    \A i \in DOMAIN messages : (messages[i].room = NULL) # (messages[i].receiver = NULL)

\* C7 (as amended) -- DM to an offline recipient: a DM sent while no
\* connection is registered for the recipient is persisted; the send emits
\* one event only, to the sending connection; list_dm holds the message, and
\* the history a later load_dm of the conversation returns holds it, provided
\* the message is one of the 500 lowest ids of the conversation.
C7_OfflineDMWithinLimit ==
    \A id \in undelivered :
        /\ id \in DOMAIN messages
        /\ LET m == messages[id]
               listed == AmongFirst(DmIds(m.sender, m.receiver), id, load_dm_history_limit)
           IN /\ listed => id \in IdsOf(list_dm(m.sender, m.receiver))
              /\ (last.h = "send_dm" /\ last.ret.id = id)
                   => Len(out) = 1 /\ out[1].ev = "new_message_dm" /\ out[1].to = {last.sid}
              /\ ( /\ last.h = "load_dm" /\ listed
                   /\ last.args.username = m.receiver /\ last.args.other = m.sender )
                   => /\ id \in IdsOf(last.ret)
                      /\ Emitted("load_dm_history") = {Emit("load_dm_history", {last.sid}, last.ret)}

\* C7 as stated: list_dm holds the message and the history loaded later by
\* the recipient includes it
C7_OfflineDM ==
    \A id \in undelivered :
        /\ id \in DOMAIN messages
        /\ LET m == messages[id]
           IN /\ id \in IdsOf(list_dm(m.sender, m.receiver))
              /\ (last.h = "send_dm" /\ last.ret.id = id)
                   => Len(out) = 1 /\ out[1].ev = "new_message_dm" /\ out[1].to = {last.sid}
              /\ ( /\ last.h = "load_dm"
                   /\ last.args.username = m.receiver /\ last.args.other = m.sender )
                   => id \in IdsOf(last.ret)

\* C7, the case happens: B has connected and loaded the conversation with A
\* after A sent a DM while B had no connection, and the history holds the DM
C7_OfflineDMLoadedLater ==
    /\ last.h = "load_dm"
    /\ \E id \in undelivered : id \in IdsOf(last.ret)

\* C8 (as amended) -- Room delivery: a send_message event with username
\* and room R emits new_message_room with that sender and body to every
\* connection that is a member of R; provided the message is one of the 500
\* lowest ids of R, list_room(R) ends with it, after every earlier message of
\* R, all of lower id.
C8_RoomDeliveryWithinLimit ==
    (last.h = "send_message" /\ last.ret # NoRow) =>
        LET msg == last.ret
            R == msg.room
            L == list_room(R)
        IN /\ \E e \in Emitted("new_message_room") :
                /\ e.data.sender = last.args.username
                /\ e.data.message = last.args.message
                /\ e.data.id = msg.id
                /\ {c \in Live : R \in member[c]} \subseteq e.to
           /\ msg.id \in RoomIds(R)
           /\ \A i \in RoomIds(R) \ {msg.id} : i < msg.id
           /\ AmongFirst(RoomIds(R), msg.id, load_room_messages_limit)
                => /\ L # <<>>
                   /\ L[Len(L)] = msg
                   /\ \A k \in 1..(Len(L) - 1) : L[k].id < msg.id

\* C8 as stated: list_room(R) contains the message after all earlier ones
C8_RoomDelivery ==
    (last.h = "send_message" /\ last.ret # NoRow) =>
        LET msg == last.ret
            R == msg.room
            L == list_room(R)
        IN /\ \E e \in Emitted("new_message_room") :
                /\ e.data.sender = last.args.username
                /\ e.data.message = last.args.message
                /\ e.data.id = msg.id
                /\ {c \in Live : R \in member[c]} \subseteq e.to
           /\ L # <<>>
           /\ L[Len(L)] = msg
           /\ \A k \in 1..(Len(L) - 1) : L[k].id < msg.id

\* C8, the case happens: a message has just been sent to a room that another
\* connection is a member of, and list_room returns the join system message
\* followed by the message
C8_DeliveredToMember ==
    /\ last.h = "send_message"
    /\ last.ret # NoRow
    /\ \E c \in Live \ {last.sid} : last.ret.room \in member[c]
    /\ LET L == list_room(last.ret.room)
       IN Len(L) >= 2 /\ L[1].sender = "System" /\ L[Len(L)] = last.ret

\* C9 -- Disconnect cleanup: when connection C disconnects, no username
\* maps to C afterwards and C has no entry in sid_to_user, C is a member of no
\* room, and exactly one user_list event is emitted; when C never identified
\* the two presence maps are unchanged.
C9_DisconnectCleanup ==
    [][ Disconnected' =>
          LET c == last'.sid
          IN /\ \A u \in DOMAIN user_to_sid' : user_to_sid'[u] # c
             /\ c \notin DOMAIN sid_to_user'
             /\ member'[c] = {}
             /\ Cardinality({k \in 1..Len(out') : out'[k].ev = "user_list"}) = 1
             /\ c \notin DOMAIN sid_to_user => UNCHANGED presence
      ]_vars

\* C10 -- Presence is the set of users with a live connection: every
\* username in user_to_sid maps to a connection that has not disconnected.
C10_PresenceIsLive ==
    \A u \in DOMAIN user_to_sid : conn[user_to_sid[u]] = "open"

\* the message id an event names
TargetId(l) == IF l.h = "react" THEN l.args.message_id ELSE l.args.id

\* C11 -- Not-found is a no-op: a react, pin_message, edit_message or
\* delete_message event whose message id is the id of no stored message leaves
\* the tables messages, reactions and pins unchanged and emits no event.
C11_NotFoundIsNoOp ==
    [][ ( /\ last'.h \in {"react", "pin_message", "edit_message", "delete_message"}
          /\ TargetId(last') # NoId
          /\ TargetId(last') \notin DOMAIN messages )
        => /\ UNCHANGED <<messages, reactions, pins>>
           /\ out' = <<>>
      ]_vars

\* a payload field that is absent or null
Missing(v) == v \in {ABSENT, NULL}

\* the last event lacks a field its handler requires
Malformed(l) ==
    CASE l.h = "join_room" -> Missing(l.args.username)
      [] l.h = "send_message" -> Missing(l.args.username) \/ Missing(l.args.room)
      [] l.h = "send_dm" -> Missing(l.args.username) \/ Missing(l.args.to)
      [] l.h = "react" -> \/ l.args.message_id = NoId
                          \/ Missing(l.args.username) \/ Missing(l.args.emoji)
      [] l.h \in {"edit_message", "delete_message", "pin_message"} -> l.args.id = NoId
      [] OTHER -> FALSE

\* C12 -- Malformed inbound events are dropped: an event that lacks a
\* required field changes nothing in the tables, the presence maps or the room
\* membership, emits no event, and leaves the connection open.
C12_MalformedIsDropped ==
    [][ Malformed(last') =>
          /\ UNCHANGED <<store, presence, member>>
          /\ out' = <<>>
          /\ conn'[last'.sid] = "open"
      ]_vars

\* C13 -- Pin dangling: when a delete_message succeeds for a pinned
\* message M, the pinned list of every room afterwards holds M not at all or
\* with a null body, and still holds, in the same order, every other message
\* it held before; a get_pinned event answers the requester with the pinned
\* list, which holds stored messages only.
C13_PinDangling ==
    [][ /\ (last'.h = "delete_message" /\ last'.ret = TRUE) =>
             \A R \in RoomNames :
                LET after == get_pinned_of(messages', pins', pseq', R)
                    kept == SelectSeq(get_pinned(R), LAMBDA m : m.id # last'.args.id)
                IN /\ \A k \in 1..Len(after) :
                        after[k].id = last'.args.id => after[k].message = NULL
                   /\ Len(kept) <= Len(after)
                   /\ SubSeq(after, 1, Len(kept)) = kept
        /\ last'.h = "get_pinned" =>
             /\ last'.ret = get_pinned(Get(last'.args.room, "Lobby"))
             /\ out' = <<Emit("pinned_list", {last'.sid}, last'.ret)>>
             /\ \A k \in 1..Len(last'.ret) : last'.ret[k].id \in DOMAIN messages
      ]_vars

\* C13, the case happens: a pinned message has just been deleted by its
\* sender, its pin row is still there, and the pinned list of the room still
\* returns another message
C13_PinnedMessageDeleted ==
    /\ last.h = "delete_message"
    /\ last.ret = TRUE
    /\ \E i \in DOMAIN pins : pins[i].message_id = last.args.id /\ pins[i].room = "Lobby"
    /\ get_pinned("Lobby") # <<>>

\* C14 (as amended) -- Room history visibility: the history that a
\* load_room_messages event returns to the requesting connection holds the
\* stored (posted and not deleted) messages of the room with the 500 lowest
\* ids, and so all of them when the room holds at most 500.
C14_HistoryWithinLimit ==
    last.h = "load_room_messages" =>
        LET R == Get(last.args.room, "Lobby")
            got == IdsOf(last.ret)
        IN /\ out = <<Emit("load_room_messages", {last.sid}, last.ret)>>
           /\ \A k \in 1..Len(last.ret) :
                last.ret[k].id \in RoomIds(R) /\ last.ret[k] = messages[last.ret[k].id]
           /\ Cardinality(got) = Len(last.ret)
           /\ Len(last.ret) = IF Cardinality(RoomIds(R)) <= load_room_messages_limit
                              THEN Cardinality(RoomIds(R))
                              ELSE load_room_messages_limit
           /\ \A i \in RoomIds(R) \ got : \A j \in got : j < i

\* C14 as stated: the history holds every stored message of the room, however
\* many the room holds
C14_HistoryComplete ==
    last.h = "load_room_messages" =>
        RoomIds(Get(last.args.room, "Lobby")) \subseteq IdsOf(last.ret)

\* C14, the case happens: a connection has requested the history of a room in
\* which a message was posted and another deleted, and received the posted one
C14_HistoryLoaded ==
    /\ last.h = "load_room_messages"
    /\ \E i \in 1..Len(sends) : sends[i].id \in IdsOf(last.ret)
    /\ \E i \in 1..seq : i \notin DOMAIN messages

\* the rows of a sequence of rows that are DMs
DMsIn(L) == {k \in 1..Len(L) : L[k].receiver # NULL}

\* C15 -- A DM is not visible in any room: for every room R, neither
\* list_room(R) nor search(R, q) nor the pinned list of R holds a message that
\* has a receiver.
C15_NoDMInRoomViews ==
    \A R \in RoomNames :
        /\ DMsIn(list_room(R)) = {}
        /\ \A q \in {"", "h", NULL} : DMsIn(search_room(R, q)) = {}
        /\ DMsIn(get_pinned(R)) = {}

\* C16 -- No interleaving of persist and broadcast: at most one
\* send_message handler is between its persist and its broadcast, the message
\* it holds is the newest of the store, and every connection has received the
\* new_message_room events of send_message in ascending id order.
C16_NoInterleaving ==
    /\ Cardinality({c \in Sids : task[c] # NoRow}) <= 1
    /\ \A c \in Sids : task[c] # NoRow => task[c].id = seq
    /\ \A c \in Sids : \A i, j \in 1..Len(inbox[c]) : i < j => inbox[c][i] < inbox[c][j]

\* C16, the case happens: two connections have sent to the same room and a
\* member of the room has received both events
C16_TwoSendersDelivered ==
    /\ Len(sends) >= 2
    /\ sends[1].sid # sends[2].sid
    /\ sends[1].room = "Lobby" /\ sends[2].room = "Lobby"
    /\ inbox["s1"] = <<sends[1].id, sends[2].id>>

\* C17 -- Session mapping is one-to-one: no connection is the mapped
\* connection of two usernames in user_to_sid (each username maps to one
\* connection at most, user_to_sid being a function).
C17_OneToOne ==
    \A u, v \in DOMAIN user_to_sid : user_to_sid[u] = user_to_sid[v] => u = v

C19_DMFanOut ==
    (last.h = "send_dm" /\ last.ret # NoRow) =>
        LET reg == DictGet(user_to_sid, last.args.to)
        IN /\ \A k \in 1..Len(out) : out[k].ev = "new_message_dm"
           /\ UNION {out[k].to : k \in 1..Len(out)} = ({reg} \cap Live) \cup {last.sid}

\* C20 -- Delete removes the message with its reactions: when a
\* delete_message event succeeds (the connection is identified as the sender of
\* the stored message), the message is afterwards in no room history, in no
\* direct-message history and in no search result, its reaction counts are
\* empty and no reaction row references it; every other message and every
\* reaction on another message is as before; and one delete_message event with
\* the id goes to every open connection.
C20_DeleteRemoves ==
    [][ (last'.h = "delete_message" /\ last'.ret = TRUE) =>
          LET id == last'.args.id
          IN /\ DictGet(sid_to_user, last'.sid) = messages[id].sender
             /\ \A r \in RoomNames : id \notin IdsOf(list_room(r)')
             /\ \A a \in Usernames, b \in Usernames : id \notin IdsOf(list_dm(a, b)')
             /\ \A r \in RoomNames, q \in {"", "HI"} : id \notin IdsOf(search_room(r, q)')
             /\ reactions_summary_of(reactions', id) = EmptyDict
             /\ \A x \in reactions' : x.message_id # id
             /\ DOMAIN messages' = DOMAIN messages \ {id}
             /\ \A i \in DOMAIN messages' : messages'[i] = messages[i]
             /\ reactions' = {x \in reactions : x.message_id # id}
             /\ out' = <<Emit("delete_message", Live', [id |-> id])>>
      ]_vars

\* C20, the case happens: a message that carried a reaction has just been
\* deleted by its sender while another message and a reaction on it are stored
C20_DeletedWithReactions ==
    /\ last.h = "delete_message"
    /\ last.ret = TRUE
    /\ \E i \in DOMAIN messages : \E x \in reactions : x.message_id = i
    /\ rseq > Cardinality(reactions)
    /\ Cardinality(Live) = 2

\* C21 -- Edit frame: when an edit_message event succeeds (the connection is
\* identified as the sender of the stored message), the addressed row differs
\* from before in its body only, which is the body sent; every other message,
\* the reactions, the pins, the presence maps and the room memberships are as
\* before; and one update_message event that carries the row with the new
\* body goes to every open connection.
C21_EditFrame ==
    [][ (last'.h = "edit_message" /\ last'.ret # NoRow) =>
          LET id == last'.args.id
              old == messages[id]
          IN /\ DictGet(sid_to_user, last'.sid) = old.sender
             /\ DOMAIN messages' = DOMAIN messages
             /\ \A i \in DOMAIN messages \ {id} : messages'[i] = messages[i]
             /\ messages'[id] = [old EXCEPT !.message = Get(last'.args.message, NULL)]
             /\ UNCHANGED <<seq, reactions, rseq, pins, pseq, user_to_sid, sid_to_user, member, conn>>
             /\ out' = <<Emit("update_message", Live, messages'[id])>>
             /\ out'[1].data.message = Get(last'.args.message, NULL)
      ]_vars

\* C21, the case happens: a message has just been edited by its sender while
\* another message, a reaction and a pin are stored
C21_EditedAmongOthers ==
    /\ last.h = "edit_message"
    /\ last.ret # NoRow
    /\ messages[last.args.id].message \in EditBodies
    /\ \E i \in DOMAIN messages : messages[i].message \notin EditBodies
    /\ reactions # {}
    /\ DOMAIN pins # {}
    /\ DOMAIN user_to_sid # {}

\* the events that only notify or query
QuietQueries == {"load_room_messages", "load_dm", "search", "get_pinned", "request_reactions"}
QuietNotices == {"typing", "stop_typing"}

\* C22 -- Non-mutating events: a typing, stop_typing, load_room_messages,
\* load_dm, search, get_pinned or request_reactions event leaves the messages,
\* the reactions, the pins, the presence maps and the room memberships as they
\* were; what a query emits goes to the requesting connection only, and what
\* typing / stop_typing emit goes only to connections that are members of the
\* room named in the event.
C22_NonMutating ==
    [][ (last'.h \in QuietQueries \cup QuietNotices) =>
          /\ UNCHANGED <<messages, seq, reactions, rseq, pins, pseq,
                         user_to_sid, sid_to_user, member>>
          /\ last'.h \in QuietQueries =>
                \A k \in 1..Len(out') : out'[k].to = {last'.sid}
          /\ last'.h \in QuietNotices =>
                \A k \in 1..Len(out') :
                    out'[k].to \subseteq {c \in Live : last'.args.room \in member[c]}
      ]_vars

\* the room lists among the events just emitted
RoomLists ==
    {out[k].data : k \in {i \in 1..Len(out) : out[i].ev = "rooms_list"}}
    \cup {out[k].data.rooms : k \in {i \in 1..Len(out) : out[i].ev = "initial"}}

\* C23 -- Room list completeness: every room list sent (in an initial event
\* or in a rooms_list event after a join) contains Lobby and contains every
\* room of which an open connection is a member.
C23_RoomListComplete ==
    \A rooms \in RoomLists :
        /\ "Lobby" \in rooms
        /\ \A c \in Live : member[c] \subseteq rooms

\* the pins recorded for a room whose message is stored
PinsOf(R) == {i \in DOMAIN pins : pins[i].room = R /\ pins[i].message_id \in DOMAIN messages}

C25_ReactionUnique ==
    /\ \A x \in reactions, y \in reactions :
          (x.message_id = y.message_id /\ x.username = y.username /\ x.emoji = y.emoji)
              => x = y
    /\ \A mid \in Ids(0) :
          LET counts == reactions_summary(mid)
          IN \A e \in DOMAIN counts :
                counts[e] <= Cardinality({x.username : x \in reactions})

\* the messages of the joined room that were stored before the join
EarlierInRoom == RoomIds(last.ret.room) \ {last.ret.id}

\* C26 (as amended) -- Join snapshot ordering: a join_room event first sends
\* the joining connection a load_room_messages snapshot that holds the
\* messages stored in the room before the join with the 500 lowest ids (all
\* of them when there were at most 500) and not the join message; the join
\* message reaches the joining connection once, in the new_message_room event
\* that the handler emits to the room after the snapshot.
C26_JoinSnapshotWithinLimit ==
    Joined =>
        LET snap == out[1].data
            got == IdsOf(snap)
        IN /\ out[1].ev = "load_room_messages"
           /\ last.sid \in out[1].to
           /\ got \subseteq EarlierInRoom
           /\ \A k \in 1..Len(snap) : snap[k] = messages[snap[k].id]
           /\ \A k \in 1..(Len(snap) - 1) : snap[k].id < snap[k + 1].id
           /\ Len(snap) = IF Cardinality(EarlierInRoom) <= load_room_messages_limit
                          THEN Cardinality(EarlierInRoom)
                          ELSE load_room_messages_limit
           /\ \A i \in EarlierInRoom \ got : \A j \in got : j < i
           /\ {k \in 1..Len(out) : /\ out[k].ev \in {"new_message_room", "message"}
                                   /\ out[k].data = last.ret
                                   /\ last.sid \in out[k].to} = {2}

\* C26 as stated: the snapshot holds every message stored in the room before
\* the join
C26_JoinSnapshot ==
    Joined => EarlierInRoom \subseteq IdsOf(out[1].data)

\* C26, the case happens: a connection has joined a room that held messages,
\* has been sent a snapshot of 500 of them, and is among the receivers of its
\* join message
C26_JoinedWithSnapshot ==
    /\ Joined
    /\ Len(out[1].data) = load_room_messages_limit
    /\ last.ret.id \notin IdsOf(out[1].data)
    /\ last.sid \in out[2].to

\* the ids that were assigned to messages since deleted
DeletedIds == (1..seq) \ DOMAIN messages

\* the ids that reply_to fields, pins and reactions refer to
ReferencedIds ==
    {messages[i].reply_to : i \in DOMAIN messages}
    \cup {pins[i].message_id : i \in DOMAIN pins}
    \cup {x.message_id : x \in reactions}

\* C27 -- Message ids are never reused: a step that stores a new message
\* (send_message, send_dm or join_room) gives it an id greater than every id
\* stored and every id assigned before, deleted ones included; so the id of a
\* deleted message stays unused and a reply_to, pin or reaction that refers to
\* it refers to no message afterwards.
C27_IdsNeverReused ==
    [][ LET new == DOMAIN messages' \ DOMAIN messages
        IN /\ \A i \in new : /\ \A j \in DOMAIN messages \cup DeletedIds : i > j
                              /\ messages'[i].id = i
           /\ DOMAIN messages' \subseteq 1..seq'
           /\ seq' >= seq
           /\ \A i \in DeletedIds : i \notin DOMAIN messages'
           /\ \A i \in ReferencedIds \cap DeletedIds : i \notin DOMAIN messages'
      ]_vars

\* C27, the case happens: the message with the highest id was deleted while
\* a pin and a reaction referred to it, and a message has just been stored
\* under the next id
C27_AppendedAfterDelete ==
    /\ last.h \in {"send_message", "send_dm", "join_room"}
    /\ last.ret # NoRow
    /\ last.ret.id \in DOMAIN messages
    /\ (last.ret.id - 1) \in DeletedIds
    /\ \E i \in DOMAIN pins : pins[i].message_id = last.ret.id - 1
    /\ \E x \in reactions : x.message_id = last.ret.id - 1

====
